---- MODULE Spec2Model ----
(***************************************************************************)
(* Model of the checkout orchestration engine of fwgs-monitor: the class   *)
(* FWGSCheckout (executeCheckout, navigateToCheckout, fillContactInfo,     *)
(* fillShippingInfo, handlePayment, monitorPaymentErrors).                 *)
(*                                                                         *)
(* The browser is the environment: every page primitive either returns or  *)
(* raises a fault (a timeout), chosen nondeterministically.  Pacing delays *)
(* (page.waitForTimeout) change no state and are not modelled as steps.    *)
(* The main flow (one async call chain) and the error poller (a chain of   *)
(* timer callbacks) are two processes that interleave at their awaits.     *)
(***************************************************************************)
EXTENDS Integers, Sequences, FiniteSets, TLC

VARIABLES
    productUrl,     \* TRUE iff this.productUrl is set
    onComplete,     \* TRUE iff options.onComplete was given (else null)
    onError,        \* TRUE iff options.onError was given (else null)
    runs,           \* number of calls of executeCheckout on this instance so far
    page,           \* the error elements of the page a check scans (ScanSpec only)
    pc,             \* position of the executeCheckout call chain
    browser,        \* "none" | "open" | "closed"
    closeCount,     \* number of browser.close() calls
    pending,        \* the exception in flight (None when there is none)
    caught,         \* history: the error the catch clause caught (None before)
    settled,        \* "pending" | "resolved" | "rejected": executeCheckout's promise
    rejection,      \* the error executeCheckout rejected with
    outcome,        \* per stage: how the stage ended
    stageLog,       \* history: the page primitives attempted by the latest stage, in order
    events,         \* history: the terminal events (callbacks, screenshot, close), in order
    calls,          \* history: the callback invocations with their argument
    payResult,      \* the value handlePayment returned (NoResult before)
    click,          \* place-order click: "none" | "pending" | "completed" | "faulted"
    allInputs,      \* handlePayment: allInputs, the iframe's inputs (<< >> out of scope)
    pollPc,         \* poller: "idle" | "scanning" | "sleeping" | "resolved"
    checkCount,     \* monitorPaymentErrors: checkCount
    inProgress,     \* number of checkForErrors invocations begun and not yet ended
    scheduled,      \* number of setTimeout(checkForErrors, 200) timers not yet fired
    errorFound,     \* monitorPaymentErrors: errorFound
    errorMessage,   \* monitorPaymentErrors: errorMessage
    monitorResult,  \* value the errorMonitor promise resolved with (NoMonitor before)
    resolveCount,   \* number of resolve() calls of the errorMonitor promise that took effect
    clickAtResolve, \* history: the state of the click when the promise resolved
    submittedAtScan \* history: TRUE iff the click had been issued when the latest check began

vars == <<productUrl, onComplete, onError, runs, page, pc, browser, closeCount, pending, caught,
          settled, rejection, outcome, stageLog, events, calls, payResult,
          click, allInputs, pollPc,
          checkCount, inProgress, scheduled, errorFound, errorMessage,
          monitorResult, resolveCount, clickAtResolve, submittedAtScan>>

mainVars == <<pc, browser, closeCount, pending, caught, settled, rejection, outcome,
              stageLog, events, calls, payResult, click, allInputs>>

pollVars == <<pollPc, checkCount, inProgress, scheduled, errorFound, errorMessage,
              monitorResult, resolveCount, clickAtResolve, submittedAtScan>>

\* What a call of executeCheckout never writes: the fields of the instance,
\* the count of the calls made, and the page's own content.
cfgVars == <<productUrl, onComplete, onError, runs, page>>

(***************************************************************************)
(* Messages.  A message is a sequence of strings: a fault raised by the    *)
(* browser or by the script is a one-element sequence naming it, a text    *)
(* read from the page is its sequence of characters.                       *)
(***************************************************************************)
None == <<>>

Msg(s) == <<s>>

TimeoutMsg(act) == <<"TimeoutError", act>>

\* handlePayment has not returned.
NoResult == [kind |-> "none", success |-> FALSE, error |-> None]

\* The errorMonitor promise is unresolved.
NoMonitor == [kind |-> "none", errorFound |-> FALSE, errorMessage |-> None, timing |-> 0]

(***************************************************************************)
(* The funnel.  Stages in the order executeCheckout runs them.             *)
(***************************************************************************)
Stages ==
    << "AgeVerification", "AvailabilityAndShipSelect", "AddToCart",
       "CartToCheckout", "ContactInfo", "ShippingInfo", "AddressValidation",
       "Payment", "PlaceOrder" >>

StageSet == { Stages[i] : i \in 1..Len(Stages) }

StageIdx(s) == CHOOSE i \in 1..Len(Stages) : Stages[i] = s

\* The fallible page primitives of each straight-line stage, in program order.
AgeVerificationPrims == << "click:age-yes" >>

AvailabilityPrims ==
    << "click:see-availability", "waitForSelector:fulfillment-dialog",
       "evaluate:select-ship" >>

AddToCartPrims == << "click:add-to-cart" >>

ContactInfoPrims ==
    << "waitForSelector:contact-firstName", "fill:contact-firstName",
       "fill:contact-lastName", "fill:contact-email", "fill:contact-phone",
       "waitFor:contact-submit", "click:contact-submit",
       "waitForSelector:shipping-firstName" >>

ShippingInfoPrims ==
    << "waitFor:shipping-firstName", "fill:shipping-firstName",
       "fill:shipping-lastName", "fill:shipping-street", "fill:shipping-city",
       "fill:shipping-zip", "waitFor:continue-to-payment",
       "click:continue-to-payment" >>

AddressValidationPrims ==
    << "waitForSelector:validation-dialog", "waitFor:use-this-address",
       "click:use-this-address" >>

\* The primitives that observe the page and act on nothing (waits, queries,
\* the warning).  A stage's first wait is its precondition.
ObservePrims ==
    { "waitForSelector:fulfillment-dialog", "waitForSelector:contact-firstName",
      "waitFor:contact-submit", "waitForSelector:shipping-firstName",
      "waitFor:shipping-firstName", "waitFor:continue-to-payment",
      "waitForSelector:validation-dialog", "waitFor:use-this-address",
      "waitForSelector:cardholder", "waitFor:iframe-attached", "contentFrame",
      "locator:input.all", "warn:no-cvv", "waitFor:place-order",
      "isEnabled:place-order" }

\* navigateToCheckout: the strategies array, in declared order.
Strategies ==
    << "click:button.cart-link", "click:button-Checkout", "click:a-Checkout" >>

(***************************************************************************)
(* History records.  One entry per page primitive attempted (ok = FALSE    *)
(* when it raised) and per terminal event.  idx is the index of the iframe *)
(* input the primitive acted on, 0 when it is not an iframe input.         *)
(* stageLog is restarted by each stage; the stages that ended are          *)
(* remembered in outcome.                                                  *)
(***************************************************************************)
Entry(stage, act, ok) == [stage |-> stage, act |-> act, ok |-> ok, idx |-> 0]

EntryAt(stage, act, ok, i) == [stage |-> stage, act |-> act, ok |-> ok, idx |-> i]

\* The entries of running prims with primitive k raising (k = 0: none raises).
Attempt(stage, prims, k) ==
    [ i \in 1..(IF k = 0 THEN Len(prims) ELSE k) |->
        Entry(stage, prims[i], i # k) ]

Init ==
    /\ productUrl \in BOOLEAN
    /\ onComplete \in BOOLEAN
    /\ onError \in BOOLEAN
    /\ runs = 1
    /\ page = << >>
    /\ pc = "Start"
    /\ browser = "none"
    /\ closeCount = 0
    /\ pending = None
    /\ caught = None
    /\ settled = "pending"
    /\ rejection = None
    /\ outcome = [ s \in StageSet |-> "notStarted" ]
    /\ stageLog = << >>
    /\ events = << >>
    /\ calls = << >>
    /\ payResult = NoResult
    /\ click = "none"
    /\ allInputs = << >>
    /\ pollPc = "idle"
    /\ checkCount = 0
    /\ inProgress = 0
    /\ scheduled = 0
    /\ errorFound = FALSE
    /\ errorMessage = None
    /\ monitorResult = NoMonitor
    /\ resolveCount = 0
    /\ clickAtResolve = "unresolved"
    /\ submittedAtScan = FALSE

(***************************************************************************)
(* executeCheckout, lines 145-151: the URL check and createBrowser, both   *)
(* before the try block.                                                   *)
(***************************************************************************)
Reject(e) ==
    /\ settled' = "rejected"
    /\ rejection' = e
    /\ pc' = "Done"

ExecuteCheckout ==
    /\ pc = "Start"
    /\ IF productUrl
         THEN /\ pc' = "CreateBrowser"
              /\ UNCHANGED <<settled, rejection>>
         ELSE Reject(Msg("Product URL is required"))
    /\ UNCHANGED <<browser, closeCount, pending, caught, outcome, stageLog, events,
                   calls, payResult, click>>
    /\ UNCHANGED pollVars
    /\ UNCHANGED allInputs
    /\ UNCHANGED cfgVars

\* createBrowser: chromium.launch, then browser.newPage; either may raise.
CreateBrowser ==
    /\ pc = "CreateBrowser"
    /\ \E r \in {"ok", "launchFault", "newPageFault"} :
         /\ browser' = IF r = "launchFault" THEN "none" ELSE "open"
         /\ stageLog' =
              IF r = "launchFault"
                THEN << Entry("Start", "chromium.launch", FALSE) >>
                ELSE << Entry("Start", "chromium.launch", TRUE),
                        Entry("Start", "browser.newPage", r = "ok") >>
         /\ IF r = "ok"
              THEN /\ pc' = "Navigate"
                   /\ UNCHANGED <<settled, rejection>>
              ELSE Reject(TimeoutMsg(IF r = "launchFault"
                                       THEN "chromium.launch"
                                       ELSE "browser.newPage"))
    /\ UNCHANGED <<closeCount, pending, caught, outcome, events, calls, payResult,
                   click>>
    /\ UNCHANGED pollVars
    /\ UNCHANGED allInputs
    /\ UNCHANGED cfgVars

(***************************************************************************)
(* The try block.  A primitive that raises transfers control to the catch  *)
(* clause with the raised error.                                           *)
(***************************************************************************)
Raise(e) ==
    /\ pending' = e
    /\ caught' = e
    /\ pc' = "Catch"

\* A straight-line stage: its primitives run in order until one raises.
StageStep(stage, prims, next) ==
    /\ pc = stage
    /\ \E k \in 0..Len(prims) :
         /\ stageLog' = Attempt(stage, prims, k)
         /\ IF k = 0
              THEN /\ pc' = next
                   /\ outcome' = [outcome EXCEPT ![stage] = "succeeded"]
                   /\ UNCHANGED <<pending, caught>>
              ELSE /\ Raise(TimeoutMsg(prims[k]))
                   /\ outcome' = [outcome EXCEPT ![stage] = "failed"]
    /\ UNCHANGED <<browser, closeCount, settled, rejection, events, calls,
                   payResult, click>>
    /\ UNCHANGED pollVars
    /\ UNCHANGED allInputs
    /\ UNCHANGED cfgVars

\* page.goto; addSimpleTimer swallows its own faults.
Navigate ==
    /\ pc = "Navigate"
    /\ \E ok \in BOOLEAN :
         /\ stageLog' = Append(stageLog, Entry("Start", "goto:productUrl", ok))
         /\ IF ok
              THEN pc' = "AgeVerification" /\ UNCHANGED <<pending, caught>>
              ELSE Raise(TimeoutMsg("goto:productUrl"))
    /\ UNCHANGED <<browser, closeCount, settled, rejection, outcome, events,
                   calls, payResult, click>>
    /\ UNCHANGED pollVars
    /\ UNCHANGED allInputs
    /\ UNCHANGED cfgVars

AgeVerification ==
    StageStep("AgeVerification", AgeVerificationPrims, "AvailabilityAndShipSelect")

AvailabilityAndShipSelect ==
    StageStep("AvailabilityAndShipSelect", AvailabilityPrims, "AddToCart")

AddToCart ==
    StageStep("AddToCart", AddToCartPrims, "CartToCheckout")

(***************************************************************************)
(* navigateToCheckout: open the cart, then try the strategies in declared  *)
(* order until one completes without raising.                              *)
(***************************************************************************)
RECURSIVE TryStrategiesNoBreak(_, _)
\* Mutant of TryStrategies: the loop lacks its break and goes on after a
\* strategy completed.
TryStrategiesNoBreak(works, i) ==
    IF i > Len(Strategies)
      THEN [clicked |-> FALSE, tried |-> << >>]
      ELSE LET rest == TryStrategiesNoBreak(works, i + 1)
           IN  [clicked |-> works[i] \/ rest.clicked,
                tried |-> << Entry("CartToCheckout", Strategies[i], works[i]) >>
                          \o rest.tried]

\* Mutant of TryStrategies: the loop gives up at the first strategy that
\* raises.
TryStrategiesGivingUp(works, i) ==
    [clicked |-> works[i],
     tried |-> << Entry("CartToCheckout", Strategies[i], works[i]) >>]

RECURSIVE TryStrategies(_, _)
\* The for-loop from strategy i on; works[j] tells whether strategy j's click
\* completes.  Returns whether checkoutClicked was set and the strategies tried.
TryStrategies(works, i) ==
    IF i > Len(Strategies)
      THEN [clicked |-> FALSE, tried |-> << >>]
      ELSE IF works[i]
             THEN [clicked |-> TRUE,
                   tried |-> << Entry("CartToCheckout", Strategies[i], TRUE) >>]
             ELSE LET rest == TryStrategies(works, i + 1)
                  IN  [clicked |-> rest.clicked,
                       tried |-> << Entry("CartToCheckout", Strategies[i], FALSE) >>
                                 \o rest.tried]

NavigateToCheckout ==
    /\ pc = "CartToCheckout"
    /\ \E cartOk \in BOOLEAN, works \in [1..Len(Strategies) -> BOOLEAN] :
         LET r == TryStrategies(works, 1)
         IN  IF ~cartOk
               THEN /\ stageLog' = << Entry("CartToCheckout", "click:cart", FALSE) >>
                    /\ Raise(TimeoutMsg("click:cart"))
                    /\ outcome' = [outcome EXCEPT !["CartToCheckout"] = "failed"]
               ELSE /\ stageLog' = << Entry("CartToCheckout", "click:cart", TRUE) >>
                                     \o r.tried
                    /\ IF r.clicked
                         THEN /\ pc' = "ContactInfo"
                              /\ outcome' = [outcome EXCEPT !["CartToCheckout"] = "succeeded"]
                              /\ UNCHANGED <<pending, caught>>
                         ELSE /\ Raise(Msg("Could not find checkout button"))
                              /\ outcome' = [outcome EXCEPT !["CartToCheckout"] = "failed"]
    /\ UNCHANGED <<browser, closeCount, settled, rejection, events, calls,
                   payResult, click>>
    /\ UNCHANGED pollVars
    /\ UNCHANGED allInputs
    /\ UNCHANGED cfgVars

FillContactInfo ==
    StageStep("ContactInfo", ContactInfoPrims, "ShippingInfo")

\* fillShippingInfo up to the click on "Continue to Payment" (lines 259-277).
FillShippingInfo ==
    StageStep("ShippingInfo", ShippingInfoPrims, "AddressValidation")

(***************************************************************************)
(* fillShippingInfo, lines 279-288: the address-validation block.  Every   *)
(* fault raised inside it is caught and the flow continues.                *)
(***************************************************************************)
\* How the block ended when primitive k raised (k = 0: none did).
AddressValidationOutcome(k) ==
    IF k = 0 THEN "succeeded"
    ELSE IF k = 1 THEN "skipped"
    ELSE "swallowed"

AddressValidation ==
    /\ pc = "AddressValidation"
    /\ \E k \in 0..Len(AddressValidationPrims) :
         /\ stageLog' = Attempt("AddressValidation", AddressValidationPrims, k)
         /\ outcome' = [outcome EXCEPT !["AddressValidation"] =
                                           AddressValidationOutcome(k)]
    /\ pc' = "Payment"
    /\ UNCHANGED <<browser, closeCount, pending, caught, settled, rejection, events,
                   calls, payResult, click>>
    /\ UNCHANGED pollVars
    /\ UNCHANGED allInputs
    /\ UNCHANGED cfgVars

(***************************************************************************)
(* The payment iframe.  An input of the iframe is observed through its     *)
(* attributes; fault tells how the element misbehaves: "inspect" raises on *)
(* isVisible/isEnabled/getAttribute, "act" raises on click/fill.           *)
(* ph is the set of fallback patterns its placeholder contains.            *)
(* Inputs are indexed from 1 here, from 0 in the script.                   *)
(***************************************************************************)
Input(type, visible, enabled, ph, maxlen, fault) ==
    [type |-> type, visible |-> visible, enabled |-> enabled, ph |-> ph,
     maxlen |-> maxlen, fault |-> fault]

\* cvvSelectors, in declared order.
CvvSelectors ==
    << "placeholder*=CVV", "placeholder*=CVC", "placeholder*=Security",
       "maxlength=3", "maxlength=4" >>

\* Whether the input matches the p-th fallback selector.
MatchesSelector(in, p) ==
    CASE p = 1 -> "CVV" \in in.ph
      [] p = 2 -> "CVC" \in in.ph
      [] p = 3 -> "Security" \in in.ph
      [] p = 4 -> in.maxlen = 3
      [] p = 5 -> in.maxlen = 4

\* locator(sel).first(): the lowest of the matching indices, 0 when there is
\* none.
FirstIndex(matching) ==
    IF matching = {}
      THEN 0
      ELSE CHOOSE i \in matching : \A j \in matching : i <= j

\* click/fill on the input raises: the element misbehaves, or it is disabled
\* and the actionability wait times out.
ActRaises(in) == in.fault = "act" \/ ~in.enabled

\* 'input[type="text"], input[type="tel"], input:not([type="hidden"])'
CardSelector(in) ==
    in.type = "text" \/ in.type = "tel" \/ in.type # "hidden"

\* frame.locator(...).first() of line 310.
CardField(inputs) ==
    FirstIndex({ i \in 1..Len(inputs) : CardSelector(inputs[i]) })

\* Mutant of CvvCandidate: the first input is not excluded.
CvvCandidateAnyIndex(in, i) ==
    in.visible /\ in.enabled /\ in.type # "hidden"

\* The condition of line 338 for the input at (1-based) index i.
CvvCandidate(in, i) ==
    in.visible /\ in.enabled /\ in.type # "hidden" /\ i > 1

RECURSIVE PositionalPass(_, _)
\* The loop of lines 327-353 from index i on: whether the CVV was entered and
\* the fills attempted.
PositionalPass(inputs, i) ==
    IF i > Len(inputs)
      THEN [entered |-> FALSE, tried |-> << >>]
      ELSE IF inputs[i].fault = "inspect" \/ ~CvvCandidate(inputs[i], i)
             THEN PositionalPass(inputs, i + 1)
             ELSE IF ActRaises(inputs[i])
                    THEN LET rest == PositionalPass(inputs, i + 1)
                         IN  [entered |-> rest.entered,
                              tried |-> << EntryAt("Payment", "fill:cvv", FALSE, i) >>
                                        \o rest.tried]
                    ELSE [entered |-> TRUE,
                          tried |-> << EntryAt("Payment", "fill:cvv", TRUE, i) >>]

RECURSIVE FallbackPass(_, _)
\* The loop of lines 365-380 from selector p on.
FallbackPass(inputs, p) ==
    IF p > Len(CvvSelectors)
      THEN [entered |-> FALSE, tried |-> << >>]
      ELSE LET i == FirstIndex({ j \in 1..Len(inputs) :
                                   MatchesSelector(inputs[j], p) })
           IN  IF i = 0 \/ inputs[i].fault = "inspect" \/ ~inputs[i].visible
                 THEN FallbackPass(inputs, p + 1)
                 ELSE IF ActRaises(inputs[i])
                        THEN LET rest == FallbackPass(inputs, p + 1)
                             IN  [entered |-> rest.entered,
                                  tried |-> << EntryAt("Payment", CvvSelectors[p], FALSE, i) >>
                                            \o rest.tried]
                        ELSE [entered |-> TRUE,
                              tried |-> << EntryAt("Payment", CvvSelectors[p], TRUE, i) >>]

\* Mutant of EnterCvv: the fallback runs whether or not the positional pass
\* entered the CVV.
EnterCvvAlways(inputs) ==
    LET pos == PositionalPass(inputs, 1)
        fb == FallbackPass(inputs, 1)
    IN  [entered |-> pos.entered \/ fb.entered, tried |-> pos.tried \o fb.tried]

\* Lines 321-385: the positional pass, then the fallback when it entered nothing.
EnterCvv(inputs) ==
    LET pos == PositionalPass(inputs, 1)
    IN  IF pos.entered
          THEN pos
          ELSE LET fb == FallbackPass(inputs, 1)
               IN  [entered |-> fb.entered, tried |-> pos.tried \o fb.tried]

\* Sample inputs of the payment iframe.
TextInput == Input("text", TRUE, TRUE, {}, 0, "none")

HiddenInput == Input("hidden", FALSE, TRUE, {}, 0, "none")

InvisibleInput == Input("text", FALSE, TRUE, {}, 0, "none")

DisabledCvvInput == Input("tel", TRUE, FALSE, {"CVV"}, 3, "none")

StuckInput == Input("text", TRUE, TRUE, {"Security"}, 4, "act")

CvcInput == Input("tel", TRUE, TRUE, {"CVC"}, 4, "none")

InputKinds ==
    { TextInput, HiddenInput, InvisibleInput, DisabledCvvInput, StuckInput,
      CvcInput }

MaxInputs == 4

\* The iframe contents the environment may present to a run.
FrameLayouts == UNION { [1..n -> InputKinds] : n \in 0..MaxInputs }

\* handlePayment before the iframe is entered (lines 291-302).
PaymentPrePrims ==
    << "waitForSelector:cardholder", "fill:cardholder", "waitFor:iframe-attached" >>

\* The expiry entry (lines 389-392).
ExpiryPrims == << "click:expiry", "fill:expiry" >>

\* Lines 308-319: the card number goes into the first match when it is visible.
EnterCard(inputs) ==
    LET c == CardField(inputs)
    IN  IF c = 0 \/ (inputs[c].fault # "inspect" /\ ~inputs[c].visible)
          THEN [err |-> None, tried |-> << >>]
          ELSE IF inputs[c].fault = "inspect"
                 THEN [err |-> TimeoutMsg("isVisible:cardNumber"), tried |-> << >>]
                 ELSE IF ActRaises(inputs[c])
                        THEN [err |-> TimeoutMsg("fill:cardNumber"),
                              tried |-> << EntryAt("Payment", "fill:cardNumber", FALSE, c) >>]
                        ELSE [err |-> None,
                              tried |-> << EntryAt("Payment", "fill:cardNumber", TRUE, c) >>]

\* Mutant of FillCardDetails: a CVV that could not be entered is an error of
\* the stage.
FillCardDetailsStrict(inputs, allOk, e) ==
    LET card == EnterCard(inputs)
        cvv == EnterCvv(inputs)
        head == << Entry("Payment", "contentFrame", TRUE) >> \o card.tried
    IN  IF card.err # None
          THEN [err |-> card.err, tried |-> head]
          ELSE IF ~allOk
                 THEN [err |-> TimeoutMsg("locator:input.all"),
                       tried |-> Append(head, Entry("Payment", "locator:input.all", FALSE))]
                 ELSE IF ~cvv.entered
                        THEN [err |-> Msg("Could not enter CVV"),
                              tried |-> head \o cvv.tried]
                        ELSE [err |-> IF e = 0 THEN None ELSE TimeoutMsg(ExpiryPrims[e]),
                              tried |-> head \o cvv.tried
                                        \o Attempt("Payment", ExpiryPrims, e)]

\* Lines 308-394 inside the iframe: allOk tells whether locator('input').all()
\* returned, e which expiry primitive raised (0: none).
FillCardDetails(inputs, allOk, e) ==
    LET card == EnterCard(inputs)
        cvv == EnterCvv(inputs)
        head == << Entry("Payment", "contentFrame", TRUE) >> \o card.tried
    IN  IF card.err # None
          THEN [err |-> card.err, tried |-> head]
          ELSE IF ~allOk
                 THEN [err |-> TimeoutMsg("locator:input.all"),
                       tried |-> Append(head, Entry("Payment", "locator:input.all", FALSE))]
                 ELSE [err |-> IF e = 0 THEN None ELSE TimeoutMsg(ExpiryPrims[e]),
                       tried |-> head \o cvv.tried
                                 \o (IF cvv.entered
                                       THEN << >>
                                       ELSE << Entry("Payment", "warn:no-cvv", TRUE) >>)
                                 \o Attempt("Payment", ExpiryPrims, e)]

\* Mutant of PaymentRuns: an iframe without accessible content is gone past,
\* as an iframe without inputs.
PaymentRunsPastFrame ==
    { [err |-> TimeoutMsg(PaymentPrePrims[k]),
       tried |-> Attempt("Payment", PaymentPrePrims, k),
       inputs |-> << >>] :
         k \in 1..Len(PaymentPrePrims) }
    \cup
    { [err |-> None,
       tried |-> Append(Attempt("Payment", PaymentPrePrims, 0),
                        Entry("Payment", "contentFrame", FALSE))
                 \o << Entry("Payment", "warn:no-cvv", TRUE) >>
                 \o Attempt("Payment", ExpiryPrims, 0),
       inputs |-> << >>] }

\* Every way the Payment stage can run: a primitive before the iframe raises,
\* contentFrame() returns null (line 306), or the card details are entered.
\* inputs is what allInputs holds afterwards: the iframe's inputs while
\* handlePayment runs on, nothing once it has thrown.
PaymentRuns ==
    { [err |-> TimeoutMsg(PaymentPrePrims[k]),
       tried |-> Attempt("Payment", PaymentPrePrims, k),
       inputs |-> << >>] :
         k \in 1..Len(PaymentPrePrims) }
    \cup
    { [err |-> Msg("Could not access iframe content"),
       tried |-> Append(Attempt("Payment", PaymentPrePrims, 0),
                        Entry("Payment", "contentFrame", FALSE)),
       inputs |-> << >>] }
    \cup
    { [err |-> FillCardDetails(inputs, allOk, e).err,
       tried |-> Attempt("Payment", PaymentPrePrims, 0)
                 \o FillCardDetails(inputs, allOk, e).tried,
       inputs |-> IF FillCardDetails(inputs, allOk, e).err = None
                    THEN inputs ELSE << >>] :
         inputs \in FrameLayouts, allOk \in BOOLEAN, e \in 0..Len(ExpiryPrims) }

\* The Payment stage: the wait for the payment page that ends
\* fillShippingInfo (line 291) and handlePayment up to the expiry entry.
Payment ==
    /\ pc = "Payment"
    /\ \E r \in PaymentRuns :
         /\ stageLog' = r.tried
         /\ allInputs' = r.inputs
         /\ IF r.err = None
              THEN /\ pc' = "PlaceOrder"
                   /\ outcome' = [outcome EXCEPT !["Payment"] = "succeeded"]
                   /\ UNCHANGED <<pending, caught>>
              ELSE /\ Raise(r.err)
                   /\ outcome' = [outcome EXCEPT !["Payment"] = "failed"]
    /\ UNCHANGED <<browser, closeCount, settled, rejection, events, calls,
                   payResult, click>>
    /\ UNCHANGED pollVars
    /\ UNCHANGED cfgVars

(***************************************************************************)
(* Page texts, as sequences of characters, and the string functions the    *)
(* poller applies to them.                                                 *)
(***************************************************************************)
Upper == << "A", "C", "D", "E", "F", "I", "L", "P", "Y" >>

Lower == << "a", "c", "d", "e", "f", "i", "l", "p", "y" >>

\* String.prototype.toLowerCase, character by character.
LowerChar(c) ==
    IF \E i \in 1..Len(Upper) : Upper[i] = c
      THEN Lower[CHOOSE i \in 1..Len(Upper) : Upper[i] = c]
      ELSE c

ToLowerCase(t) == [ i \in 1..Len(t) |-> LowerChar(t[i]) ]

\* String.prototype.includes.
Includes(t, kw) ==
    \E i \in 0..(Len(t) - Len(kw)) :
        \A j \in 1..Len(kw) : t[i + j] = kw[j]

\* String.prototype.trim.
Trim(t) ==
    IF \A i \in 1..Len(t) : t[i] = " "
      THEN << >>
      ELSE LET a == CHOOSE i \in 1..Len(t) :
                      t[i] # " " /\ \A j \in 1..(i - 1) : t[j] = " "
               b == CHOOSE i \in 1..Len(t) :
                      t[i] # " " /\ \A j \in (i + 1)..Len(t) : t[j] = " "
           IN  SubSeq(t, a, b)

\* The keywords of lines 443-446.
Keywords ==
    { << "i", "n", "v", "a", "l", "i", "d" >>,
      << "d", "e", "c", "l", "i", "n", "e", "d" >>,
      << "e", "r", "r", "o", "r" >>,
      << "f", "a", "i", "l", "e", "d" >> }

\* The condition of lines 442-446 on an element's textContent.
IsErrorText(t) ==
    /\ t # << >>
    /\ Trim(t) # << >>
    /\ \E kw \in Keywords : Includes(ToLowerCase(t), kw)

CardDeclined == << " ", "C", "a", "r", "d", " ", "d", "e", "c", "l", "i", "n", "e", "d", " " >>

PaymentFailed == << "P", "a", "y", " ", "F", "A", "I", "L", "E", "D" >>

BlankText == << " ", " " >>

OrderPlaced == << "P", "l", "a", "c", "e", "d" >>

\* errorSelectors, in declared order.
ErrorSelectors ==
    << ".payment-error", ".card-error", ".error-message", "[role=alert]" >>

\* An element of the page: the selector it matches, whether it is visible,
\* its textContent.
Element(sel, visible, text) == [sel |-> sel, visible |-> visible, text |-> text]

RECURSIVE ScanElements(_, _, _)
\* The inner loop of lines 439-455 over the elements matching selector s, in
\* document order from position i on: the trimmed text of the first visible
\* element with an error text, None when there is none.
ScanElements(els, s, i) ==
    IF i > Len(els)
      THEN None
      ELSE IF els[i].sel = ErrorSelectors[s] /\ els[i].visible
                /\ IsErrorText(els[i].text)
             THEN Trim(els[i].text)
             ELSE ScanElements(els, s, i + 1)

RECURSIVE DocOrderScan(_, _)
\* The first visible element with an error text in document order, whatever
\* selector it matches.
DocOrderScan(els, i) ==
    IF i > Len(els)
      THEN None
      ELSE IF els[i].visible /\ IsErrorText(els[i].text)
             THEN Trim(els[i].text)
             ELSE DocOrderScan(els, i + 1)

\* Mutant of ScanSelectors: the elements are scanned in document order
\* instead of selector by selector.
ScanSelectorsDocOrder(els, s) == DocOrderScan(els, 1)

RECURSIVE ScanSelectors(_, _)
\* The outer loop of lines 437-456 from selector s on.
ScanSelectors(els, s) ==
    IF s > Len(ErrorSelectors)
      THEN None
      ELSE LET found == ScanElements(els, s, 1)
           IN  IF found # None THEN found ELSE ScanSelectors(els, s + 1)

\* Sample elements of the page.
ElementKinds ==
    { Element(".payment-error", TRUE, CardDeclined),
      Element("[role=alert]", TRUE, PaymentFailed),
      Element(".card-error", FALSE, CardDeclined),
      Element(".error-message", TRUE, OrderPlaced),
      Element(".payment-error", TRUE, BlankText) }

MaxElements == 2

\* The page contents a check of the poller may observe, in document order.
PageSnapshots == UNION { [1..n -> ElementKinds] : n \in 0..MaxElements }

\* What a scan that does not raise can find: None, or the reported text.
ScanOutcomes == { ScanSelectors(els, 1) : els \in PageSnapshots }

(***************************************************************************)
(* monitorPaymentErrors: the error poller.                                 *)
(***************************************************************************)
maxChecks == 50

CheckInterval == 200

\* Mutant of Resolve: the promise is never resolved.
ResolveLost(found, message, count) ==
    UNCHANGED <<monitorResult, resolveCount, clickAtResolve>>

\* resolve({ errorFound, errorMessage, timing: checkCount * 200 }): only the
\* first resolve of a promise takes effect.
Resolve(found, message, count) ==
    /\ monitorResult' =
         IF monitorResult = NoMonitor
           THEN [kind |-> "resolved", errorFound |-> found,
                 errorMessage |-> message, timing |-> count * CheckInterval]
           ELSE monitorResult
    /\ resolveCount' = IF monitorResult = NoMonitor THEN resolveCount + 1
                                                     ELSE resolveCount
    /\ clickAtResolve' = IF monitorResult = NoMonitor THEN click
                                                       ELSE clickAtResolve

\* Mutant of CheckDue: the bound is compared with > instead of >=.
CheckDueOffByOne(found, count) == ~(found \/ count > maxChecks)

\* Entry of checkForErrors (lines 427-432): the guard, then checkCount++.
CheckDue(found, count) == ~(found \/ count >= maxChecks)

\* The poller's callbacks run only while the main flow is suspended at an
\* await: between monitorPaymentErrors and the click there is none.
PollerMayRun == pc # "IssueClick"

\* checkForErrors up to the scan (lines 426-432): resolve when the guard
\* says so, else count the check and begin its scan.
CheckForErrors ==
    IF CheckDue(errorFound, checkCount)
      THEN /\ checkCount' = checkCount + 1
           /\ pollPc' = "scanning"
           /\ submittedAtScan' = (click # "none")
           /\ inProgress' = inProgress + 1
           /\ UNCHANGED <<monitorResult, resolveCount, clickAtResolve>>
      ELSE /\ Resolve(errorFound, errorMessage, checkCount)
           /\ pollPc' = "resolved"
           /\ UNCHANGED <<checkCount, submittedAtScan, inProgress>>

\* A timer set by setTimeout(checkForErrors, 200) fires.
PollTimer ==
    /\ pollPc = "sleeping"
    /\ PollerMayRun
    /\ scheduled > 0
    /\ scheduled' = scheduled - 1
    /\ CheckForErrors
    /\ UNCHANGED <<errorFound, errorMessage>>
    /\ UNCHANGED mainVars
    /\ UNCHANGED cfgVars

\* The scan of one check ends (lines 434-461): a match resolves the promise,
\* no match or a fault schedules the next check.  Every query of a closed
\* page raises.
\* Mutant of ScanEnds: the next check is scheduled at the end of the try and
\* once more on the way out.
ScanEndsTwoTimers(faulted, found) ==
    IF ~faulted /\ found # None
      THEN /\ errorFound' = TRUE
           /\ errorMessage' = found
           /\ Resolve(TRUE, found, checkCount)
           /\ pollPc' = "resolved"
           /\ inProgress' = inProgress - 1
           /\ UNCHANGED scheduled
      ELSE /\ pollPc' = "sleeping"
           /\ inProgress' = inProgress - 1
           /\ scheduled' = scheduled + 2
           /\ UNCHANGED <<errorFound, errorMessage, monitorResult,
                          resolveCount, clickAtResolve>>

\* How a scan ends (lines 437-461): a match resolves and returns; no match
\* (line 458) or a fault (line 460) sets the timer of the next check.
ScanEnds(faulted, found) ==
    IF ~faulted /\ found # None
      THEN /\ errorFound' = TRUE
           /\ errorMessage' = found
           /\ Resolve(TRUE, found, checkCount)
           /\ pollPc' = "resolved"
           /\ inProgress' = inProgress - 1
           /\ UNCHANGED scheduled
      ELSE /\ pollPc' = "sleeping"
           /\ inProgress' = inProgress - 1
           /\ scheduled' = scheduled + 1
           /\ UNCHANGED <<errorFound, errorMessage, monitorResult,
                          resolveCount, clickAtResolve>>

\* The scan ends on a page of unknown content: its outcome is any of those a
\* scan can have.
PollScan ==
    /\ pollPc = "scanning"
    /\ PollerMayRun
    /\ \E faulted \in BOOLEAN, found \in ScanOutcomes :
         /\ (browser # "open") => faulted
         /\ ScanEnds(faulted, found)
    /\ UNCHANGED <<checkCount, submittedAtScan>>
    /\ UNCHANGED mainVars
    /\ UNCHANGED cfgVars

(***************************************************************************)
(* The poller on a page of known content: the place-order click has        *)
(* completed, handlePayment awaits the monitor, and the page shows the     *)
(* elements of page, which the site may replace between two checks.        *)
(***************************************************************************)
InitScan ==
    /\ productUrl = TRUE
    /\ onComplete \in BOOLEAN
    /\ onError \in BOOLEAN
    /\ runs = 1
    /\ page \in PageSnapshots
    /\ pc = "AwaitMonitor"
    /\ browser = "open"
    /\ closeCount = 0
    /\ pending = None
    /\ caught = None
    /\ settled = "pending"
    /\ rejection = None
    /\ outcome = [ s \in StageSet |->
                     IF s = "PlaceOrder" THEN "running"
                     ELSE IF s = "AddressValidation" THEN "skipped"
                     ELSE "succeeded" ]
    /\ stageLog = << Entry("PlaceOrder", "waitFor:place-order", TRUE),
                     Entry("PlaceOrder", "click:place-order", TRUE) >>
    /\ events = << >>
    /\ calls = << >>
    /\ payResult = NoResult
    /\ click = "completed"
    /\ allInputs = << >>
    /\ pollPc = "scanning"
    /\ checkCount = 1
    /\ inProgress = 1
    /\ scheduled = 0
    /\ errorFound = FALSE
    /\ errorMessage = None
    /\ monitorResult = NoMonitor
    /\ resolveCount = 0
    /\ clickAtResolve = "unresolved"
    /\ submittedAtScan = FALSE

\* The scan of one check over the elements of page (lines 434-461).
ScanPage ==
    /\ pollPc = "scanning"
    /\ PollerMayRun
    /\ ScanEnds(FALSE, ScanSelectors(page, 1))
    /\ UNCHANGED <<checkCount, submittedAtScan>>
    /\ UNCHANGED mainVars
    /\ UNCHANGED cfgVars

\* The site replaces the error elements of the page between two checks.
PageChanges ==
    /\ pollPc = "sleeping"
    /\ \E els \in PageSnapshots : page' = els
    /\ UNCHANGED <<productUrl, onComplete, onError, runs>>
    /\ UNCHANGED mainVars
    /\ UNCHANGED pollVars

(***************************************************************************)
(* handlePayment, lines 396-417: place the order.                          *)
(***************************************************************************)
\* Lines 397-404: wait for the button, ask whether it is enabled, and when it
\* is start the poller, whose first check begins within the call.  allInputs
\* is not read after line 353 and is dropped here.
PlaceOrder ==
    /\ pc = "PlaceOrder"
    /\ allInputs' = << >>
    /\ \E r \in {"waitFault", "enabledFault", "disabled", "enabled"} :
         CASE r = "waitFault" ->
                /\ stageLog' = << Entry("PlaceOrder", "waitFor:place-order", FALSE) >>
                /\ Raise(TimeoutMsg("waitFor:place-order"))
                /\ outcome' = [outcome EXCEPT !["PlaceOrder"] = "failed"]
                /\ UNCHANGED <<payResult, checkCount, pollPc, monitorResult,
                               resolveCount, clickAtResolve, submittedAtScan,
                               inProgress>>
           [] r = "enabledFault" ->
                /\ stageLog' = << Entry("PlaceOrder", "waitFor:place-order", TRUE),
                                  Entry("PlaceOrder", "isEnabled:place-order", FALSE) >>
                /\ Raise(TimeoutMsg("isEnabled:place-order"))
                /\ outcome' = [outcome EXCEPT !["PlaceOrder"] = "failed"]
                /\ UNCHANGED <<payResult, checkCount, pollPc, monitorResult,
                               resolveCount, clickAtResolve, submittedAtScan,
                               inProgress>>
           [] r = "disabled" ->
                /\ stageLog' = << Entry("PlaceOrder", "waitFor:place-order", TRUE) >>
                /\ payResult' = [kind |-> "returned", success |-> TRUE, error |-> None]
                /\ pc' = "Complete"
                /\ outcome' = [outcome EXCEPT !["PlaceOrder"] = "succeeded"]
                /\ UNCHANGED <<pending, caught, checkCount, pollPc, monitorResult,
                               resolveCount, clickAtResolve, submittedAtScan,
                               inProgress>>
           [] r = "enabled" ->
                /\ stageLog' = << Entry("PlaceOrder", "waitFor:place-order", TRUE) >>
                /\ CheckForErrors
                /\ pc' = "IssueClick"
                /\ outcome' = [outcome EXCEPT !["PlaceOrder"] = "running"]
                /\ UNCHANGED <<pending, caught, payResult>>
    /\ UNCHANGED <<browser, closeCount, settled, rejection, events, calls,
                   click>>
    /\ UNCHANGED <<errorFound, errorMessage, scheduled>>
    /\ UNCHANGED cfgVars

\* Line 405: the click is issued; handlePayment awaits it.
IssueClick ==
    /\ pc = "IssueClick"
    /\ click' = "pending"
    /\ pc' = "AwaitClick"
    /\ UNCHANGED <<browser, closeCount, pending, caught, settled, rejection, outcome,
                   stageLog, events, calls, payResult>>
    /\ UNCHANGED pollVars
    /\ UNCHANGED allInputs
    /\ UNCHANGED cfgVars

\* The awaited click settles: it completes, or raises into executeCheckout.
ClickSettles ==
    /\ pc = "AwaitClick"
    /\ \E ok \in BOOLEAN :
         /\ click' = IF ok THEN "completed" ELSE "faulted"
         /\ stageLog' = Append(stageLog, Entry("PlaceOrder", "click:place-order", ok))
         /\ IF ok
              THEN /\ pc' = "AwaitMonitor"
                   /\ UNCHANGED <<pending, caught, outcome>>
              ELSE /\ Raise(TimeoutMsg("click:place-order"))
                   /\ outcome' = [outcome EXCEPT !["PlaceOrder"] = "failed"]
    /\ UNCHANGED <<browser, closeCount, settled, rejection, events, calls,
                   payResult>>
    /\ UNCHANGED pollVars
    /\ UNCHANGED allInputs
    /\ UNCHANGED cfgVars

\* Mutant of PaymentReturn: the monitor's result is not read.
PaymentReturnUnread(result) ==
    [kind |-> "returned", success |-> TRUE, error |-> None]

\* Lines 407-416: what handlePayment returns for the monitor's result.
PaymentReturn(result) ==
    IF result.errorFound
      THEN [kind |-> "returned", success |-> FALSE, error |-> result.errorMessage]
      ELSE [kind |-> "returned", success |-> TRUE, error |-> None]

\* Mutant of AwaitMonitor: a submission the poller left unconfirmed is thrown
\* as an error.
AwaitMonitorStrict ==
    /\ pc = "AwaitMonitor"
    /\ monitorResult # NoMonitor
    /\ payResult' = IF monitorResult.errorFound THEN PaymentReturn(monitorResult)
                                                ELSE payResult
    /\ outcome' = [outcome EXCEPT !["PlaceOrder"] = "failed"]
    /\ IF monitorResult.errorFound
         THEN pc' = "Complete" /\ UNCHANGED <<pending, caught>>
         ELSE Raise(Msg("Order unconfirmed"))
    /\ UNCHANGED <<browser, closeCount, settled, rejection, stageLog,
                   events, calls, click>>
    /\ UNCHANGED pollVars
    /\ UNCHANGED allInputs
    /\ UNCHANGED cfgVars

\* Line 407: await errorMonitor, then return (stopTimer swallows its faults).
AwaitMonitor ==
    /\ pc = "AwaitMonitor"
    /\ monitorResult # NoMonitor
    /\ payResult' = PaymentReturn(monitorResult)
    /\ outcome' = [outcome EXCEPT !["PlaceOrder"] =
                     IF PaymentReturn(monitorResult).success THEN "succeeded"
                                                              ELSE "failed"]
    /\ pc' = "Complete"
    /\ UNCHANGED <<browser, closeCount, pending, caught, settled, rejection, stageLog,
                   events, calls, click>>
    /\ UNCHANGED pollVars
    /\ UNCHANGED allInputs
    /\ UNCHANGED cfgVars

(***************************************************************************)
(* executeCheckout, lines 188-203: the callbacks, catch and finally.       *)
(***************************************************************************)
Call(cb, success, message, error) ==
    [cb |-> cb, success |-> success, message |-> message, error |-> error]

\* Lines 188-190: onComplete is called with a fixed result; handlePayment's
\* return value is not read.  A callback that raises is caught by the catch.
Complete ==
    /\ pc = "Complete"
    /\ IF onComplete
         THEN /\ calls' = Append(calls, Call("onComplete", TRUE,
                                              Msg("Checkout completed"), None))
              /\ events' = Append(events, Entry("Terminal", "onComplete", TRUE))
              /\ \E throws \in BOOLEAN :
                   IF throws THEN Raise(Msg("onComplete raised"))
                             ELSE pc' = "Finally" /\ UNCHANGED <<pending, caught>>
         ELSE /\ pc' = "Finally"
              /\ UNCHANGED <<calls, events, pending, caught>>
    /\ UNCHANGED <<browser, closeCount, settled, rejection, outcome, stageLog,
                   payResult, click>>
    /\ UNCHANGED pollVars
    /\ UNCHANGED allInputs
    /\ UNCHANGED cfgVars

\* Mutant of Catch: the browser is closed in the catch clause, before the
\* error is reported.
CatchClosingFirst ==
    /\ pc = "Catch"
    /\ events' = events \o << Entry("Terminal", "screenshot", TRUE),
                              Entry("Terminal", "browser.close", TRUE) >>
    /\ browser' = "closed"
    /\ closeCount' = closeCount + 1
    /\ pc' = "ReportError"
    /\ UNCHANGED <<pending, caught, settled, rejection, outcome, stageLog,
                   calls, payResult, click>>
    /\ UNCHANGED pollVars
    /\ UNCHANGED allInputs
    /\ UNCHANGED cfgVars

\* Lines 193-194: the diagnostic screenshot.  When it raises, the rest of the
\* catch clause is skipped and its error replaces the caught one.
Catch ==
    /\ pc = "Catch"
    /\ \E ok \in BOOLEAN :
         /\ events' = Append(events, Entry("Terminal", "screenshot", ok))
         /\ IF ok
              THEN pc' = "ReportError" /\ UNCHANGED <<pending, caught>>
              ELSE pc' = "Finally" /\ pending' = Msg("screenshot raised")
                                    /\ UNCHANGED caught
    /\ UNCHANGED <<browser, closeCount, settled, rejection, outcome, stageLog,
                   calls, payResult, click>>
    /\ UNCHANGED pollVars
    /\ UNCHANGED allInputs
    /\ UNCHANGED cfgVars

\* Lines 196-200: onError receives the caught error's message, then the
\* error is rethrown.
ReportError ==
    /\ pc = "ReportError"
    /\ IF onError
         THEN /\ calls' = Append(calls, Call("onError", FALSE, None, pending))
              /\ events' = Append(events, Entry("Terminal", "onError", TRUE))
              /\ \E throws \in BOOLEAN :
                   pending' = IF throws THEN Msg("onError raised") ELSE pending
         ELSE UNCHANGED <<calls, events, pending>>
    /\ pc' = "Finally"
    /\ UNCHANGED <<browser, closeCount, caught, settled, rejection, outcome, stageLog,
                   payResult, click>>
    /\ UNCHANGED pollVars
    /\ UNCHANGED allInputs
    /\ UNCHANGED cfgVars

\* Line 202 and the end of the call: browser.close(), then the promise
\* settles with the error in flight, if any.
Finally ==
    /\ pc = "Finally"
    /\ \E ok \in BOOLEAN :
         LET err == IF ok THEN pending ELSE Msg("browser.close raised")
         IN  /\ closeCount' = closeCount + 1
             /\ browser' = IF ok THEN "closed" ELSE browser
             /\ events' = Append(events, Entry("Terminal", "browser.close", ok))
             /\ pending' = err
             /\ settled' = IF err = None THEN "resolved" ELSE "rejected"
             /\ rejection' = err
    /\ pc' = "Done"
    /\ UNCHANGED <<caught, outcome, stageLog, calls, payResult, click>>
    /\ UNCHANGED pollVars
    /\ UNCHANGED allInputs
    /\ UNCHANGED cfgVars

(***************************************************************************)
(* A further call of executeCheckout on the same instance, after the       *)
(* previous one has settled.  The call has its own locals (browser, page,  *)
(* the position in the funnel, the poller's closure); of the instance it   *)
(* reads the fields set by the constructor, which no call writes.  The     *)
(* history of the previous call is dropped with it.                        *)
(***************************************************************************)
MaxRuns == 2

\* Mutant of Rerun: the call resumes where the previous one stopped, on the
\* session the previous one held.
RerunResuming ==
    /\ pc = "Done"
    /\ runs < MaxRuns
    /\ runs' = runs + 1
    /\ pc' = IF \E s \in StageSet : outcome[s] = "failed"
               THEN CHOOSE s \in StageSet : outcome[s] = "failed"
               ELSE "Start"
    /\ settled' = "pending"
    /\ rejection' = None
    /\ pending' = None
    /\ caught' = None
    /\ events' = << >>
    /\ calls' = << >>
    /\ UNCHANGED <<browser, closeCount, outcome, stageLog, payResult, click,
                   allInputs>>
    /\ UNCHANGED pollVars
    /\ UNCHANGED <<productUrl, onComplete, onError, page>>

Rerun ==
    /\ pc = "Done"
    /\ runs < MaxRuns
    /\ runs' = runs + 1
    /\ pc' = "Start"
    /\ browser' = "none"
    /\ closeCount' = 0
    /\ pending' = None
    /\ caught' = None
    /\ settled' = "pending"
    /\ rejection' = None
    /\ outcome' = [ s \in StageSet |-> "notStarted" ]
    /\ stageLog' = << >>
    /\ events' = << >>
    /\ calls' = << >>
    /\ payResult' = NoResult
    /\ click' = "none"
    /\ allInputs' = << >>
    /\ pollPc' = "idle"
    /\ checkCount' = 0
    /\ inProgress' = 0
    /\ scheduled' = 0
    /\ errorFound' = FALSE
    /\ errorMessage' = None
    /\ monitorResult' = NoMonitor
    /\ resolveCount' = 0
    /\ clickAtResolve' = "unresolved"
    /\ submittedAtScan' = FALSE
    /\ UNCHANGED <<productUrl, onComplete, onError, page>>

Next ==
    \/ ExecuteCheckout
    \/ CreateBrowser
    \/ Navigate
    \/ AgeVerification
    \/ AvailabilityAndShipSelect
    \/ AddToCart
    \/ NavigateToCheckout
    \/ FillContactInfo
    \/ FillShippingInfo
    \/ AddressValidation
    \/ Payment
    \/ PlaceOrder
    \/ IssueClick
    \/ ClickSettles
    \/ AwaitMonitor
    \/ Complete
    \/ Catch
    \/ ReportError
    \/ Finally
    \/ PollTimer
    \/ PollScan

Spec == Init /\ [][Next]_vars

\* Timers fire, awaited browser calls settle (each has a timeout), and the
\* script runs on when it is not suspended.
FairSpec == Spec /\ WF_vars(Next)

\* The poller scanning a page of known content.
NextScan == ScanPage \/ PollTimer \/ PageChanges \/ AwaitMonitor

ScanSpec == InitScan /\ [][NextScan]_vars

\* The caller may call executeCheckout again once a call has settled.
NextWithRerun == Next \/ Rerun

RerunSpec == Init /\ [][NextWithRerun]_vars

(***************************************************************************)
(* Properties.                                                             *)
(***************************************************************************)
\* The run is over: executeCheckout's promise has settled.
Terminal == pc = "Done"

\* The run entered the try block (the finally clause ran).
RanFunnel == Terminal /\ events # << >>

\* Both callbacks of the results sink were given.
SinkConfigured == onComplete /\ onError

\* a occurs before b wherever both occur among the terminal events.
Before(a, b) ==
    \A i, j \in 1..Len(events) :
        (events[i].act = a /\ events[j].act = b) => i < j

Occurs(a) == \E i \in 1..Len(events) : events[i].act = a

\* C1: when handlePayment ended with the poller's confirmed failure of text T,
\* the run is terminal Failed: onError is the only callback invoked, once, with
\* {success: false, error: T}, and onComplete is never invoked.
C1_DeclinedOrderReportsError ==
    (Terminal /\ SinkConfigured /\ payResult.kind = "returned" /\ ~payResult.success)
      => /\ settled = "rejected"
         /\ calls = << Call("onError", FALSE, None, payResult.error) >>

\* C2: every run that entered the funnel invokes exactly one terminal
\* callback in total, whatever faulted on the way.
C2_ExactlyOneCallback ==
    (RanFunnel /\ SinkConfigured) => Len(calls) = 1

\* Stage s has performed a page action (a click, a fill, a script).
Acted(s) ==
    \E i \in 1..Len(stageLog) :
        stageLog[i].stage = s /\ stageLog[i].act \notin ObservePrims

\* C3: a stage performs a page action only if every earlier stage finished
\* successfully or, for AddressValidation, was skipped because its dialog
\* never appeared.
C3_StagesInOrder ==
    \A s, t \in StageSet :
        (Acted(s) /\ StageIdx(t) < StageIdx(s))
          => \/ outcome[t] = "succeeded"
             \/ (t = "AddressValidation" /\ outcome[t] = "skipped")

\* C4: a run in which a stage failed ends with no later stage started, onError
\* invoked once with the triggering error's message, and executeCheckout
\* rejected with that same error.
C4_StageFailureReported ==
    \A s \in StageSet :
        (Terminal /\ onError /\ outcome[s] = "failed")
          => /\ \A t \in StageSet :
                  StageIdx(t) > StageIdx(s) => outcome[t] = "notStarted"
             /\ calls = << Call("onError", FALSE, None, caught) >>
             /\ settled = "rejected"
             /\ rejection = caught

\* C5: a run that acquired a browser session (chromium.launch returned) has
\* closed it exactly once by the time it ends.
C5_SessionReleasedOnce ==
    (Terminal /\ browser # "none") => closeCount = 1

C7_PollerBounded ==
    /\ checkCount <= 50
    /\ (pollPc \in {"scanning", "sleeping"} /\ PollerMayRun)
         => ENABLED (PollTimer \/ PollScan)
    /\ (pollPc = "resolved") <=> (monitorResult # NoMonitor)
    /\ (monitorResult # NoMonitor /\ ~monitorResult.errorFound)
         => /\ checkCount = 50
            /\ monitorResult.errorMessage = None
            /\ monitorResult.timing = 10000

\* C7, under fair scheduling: the poller stays within its bounds, and a
\* poller that has been started resolves, faulting checks included.
C7_PollerTerminates ==
    /\ []C7_PollerBounded
    /\ (pollPc = "scanning") ~> (pollPc = "resolved")

\* The poller resolved unconfirmed after its last check.
C7_Witness ==
    /\ pollPc = "resolved"
    /\ ~monitorResult.errorFound
    /\ checkCount = 50

\* C8: an error text the poller found while the click was pending is what
\* handlePayment returns, whether the click then completes or raises.
C8_PollerResultKept ==
    (/\ monitorResult.errorFound
     /\ clickAtResolve = "pending"
     /\ click \in {"completed", "faulted"}
     /\ pc # "AwaitMonitor")
      => payResult = [kind |-> "returned", success |-> FALSE,
                      error |-> monitorResult.errorMessage]

\* C9: when the click completed, handlePayment returns failure with the
\* poller's text exactly when the poller found one, at whichever check.
C9_FailureOverridesClick ==
    /\ (click = "completed" /\ pc \notin {"AwaitMonitor"})
         => /\ payResult.kind = "returned"
            /\ monitorResult # NoMonitor
            /\ payResult.success <=> ~monitorResult.errorFound
            /\ monitorResult.errorFound =>
                 /\ payResult.error = monitorResult.errorMessage
                 /\ payResult.error # None
    /\ errorFound <=> monitorResult.errorFound

\* The click completed and the 50th check found the error text.
C9_Witness ==
    /\ click = "completed"
    /\ payResult.kind = "returned"
    /\ ~payResult.success
    /\ payResult.error = Trim(CardDeclined)
    /\ monitorResult.timing = 10000

\* C10: when the cart-to-checkout stage has succeeded, exactly the strategies
\* 1..k were tried, once each and in declared order, the first k-1 raising and
\* the k-th completing; no error is in flight and the run is at ContactInfo.
C10_StrategyTrial ==
    (pc = "ContactInfo")
      => /\ outcome["CartToCheckout"] = "succeeded"
         /\ pending = None /\ caught = None
         /\ stageLog[1] = Entry("CartToCheckout", "click:cart", TRUE)
         /\ \E k \in 1..Len(Strategies) :
              /\ Len(stageLog) = k + 1
              /\ \A i \in 1..k :
                   stageLog[i + 1] = Entry("CartToCheckout", Strategies[i], i = k)

\* The first two strategies raised and the third completed.
C10_Witness ==
    /\ pc = "ContactInfo"
    /\ Len(stageLog) = 4
    /\ ~stageLog[2].ok /\ ~stageLog[3].ok /\ stageLog[4].ok

\* navigateToCheckout threw because no strategy completed (line 228).
StrategiesExhausted == caught = Msg("Could not find checkout button")

\* The catch, the finally, or the end of the run.
Failing == pc \in {"Catch", "ReportError", "Finally", "Done"}

\* The number of terminal events named a.
Count(a) == Cardinality({ i \in 1..Len(events) : events[i].act = a })

\* C11: when the cart-to-checkout stage failed for want of a working strategy,
\* every strategy had been tried once, in declared order, and had raised; the
\* run then fails: the screenshot is taken first and once, before the browser
\* is closed, the promise rejects, and ContactInfo and the later stages never
\* start.
C11_StrategiesExhausted ==
    StrategiesExhausted
      => /\ outcome["CartToCheckout"] = "failed"
         /\ stageLog = << Entry("CartToCheckout", "click:cart", TRUE) >>
                        \o [ i \in 1..Len(Strategies) |->
                               Entry("CartToCheckout", Strategies[i], FALSE) ]
         /\ \A t \in StageSet :
              StageIdx(t) > StageIdx("CartToCheckout") => outcome[t] = "notStarted"
         /\ Failing
         /\ (pc # "Catch") => /\ events[1].act = "screenshot"
                              /\ Count("screenshot") = 1
         /\ Terminal => /\ settled = "rejected"
                        /\ Before("screenshot", "browser.close")
                        /\ closeCount = 1

\* All three strategies raised and the run ended Failed with its screenshot.
C11_Witness ==
    /\ Terminal
    /\ StrategiesExhausted
    /\ events[1] = Entry("Terminal", "screenshot", TRUE)
    /\ rejection = Msg("Could not find checkout button")

\* C12: when the validation dialog never appeared the run is at Payment with
\* no failure recorded; when the dialog appeared and the wait for or the click
\* on "Use this Address" raised, the run fails and Payment never starts.
C12_ValidationFailureEndsRun ==
    /\ (outcome["AddressValidation"] = "skipped" /\ pc = "Payment")
         => (pending = None /\ caught = None)
    /\ (outcome["AddressValidation"] = "swallowed")
         => /\ Failing
            /\ caught \in { TimeoutMsg(AddressValidationPrims[k]) : k \in 2..3 }
            /\ outcome["Payment"] = "notStarted"

\* The non-optional stages that begin with a wait for their markup, and
\* that wait.
PreconditionOf ==
    [ ContactInfo |-> ContactInfoPrims[1],
      ShippingInfo |-> ShippingInfoPrims[1],
      Payment |-> PaymentPrePrims[1],
      PlaceOrder |-> "waitFor:place-order" ]

\* Stage s failed because its precondition wait timed out.
PreconditionTimedOut(s) ==
    /\ outcome[s] = "failed"
    /\ stageLog[1] = Entry(s, PreconditionOf[s], FALSE)

\* C13: when the precondition wait of a non-optional stage timed out, the
\* stage performed none of its actions and no later stage started; the run
\* fails, rejecting with that timeout error, and the browser is closed exactly
\* once.
C13_PreconditionTimeoutFails ==
    \A s \in DOMAIN PreconditionOf :
        PreconditionTimedOut(s)
          => /\ Len(stageLog) = 1
             /\ ~Acted(s)
             /\ \A t \in StageSet :
                  StageIdx(t) > StageIdx(s) => outcome[t] = "notStarted"
             /\ Failing
             /\ caught = TimeoutMsg(PreconditionOf[s])
             /\ Terminal => /\ settled = "rejected"
                            /\ rejection = TimeoutMsg(PreconditionOf[s])
                            /\ closeCount = 1

\* The acts that enter the CVV: the positional fill and the fallback fills.
CvvActs == { "fill:cvv" } \cup { CvvSelectors[p] : p \in 1..Len(CvvSelectors) }

\* The inputs (1-based) the Payment stage has filled the CVV into.
CvvFills ==
    { stageLog[i].idx : i \in { j \in 1..Len(stageLog) :
                                  stageLog[j].act \in CvvActs /\ stageLog[j].ok } }

\* The inputs (1-based) the Payment stage has filled the card number into.
CardFills ==
    { stageLog[i].idx : i \in { j \in 1..Len(stageLog) :
                                  stageLog[j].act = "fill:cardNumber" /\ stageLog[j].ok } }

\* An iframe whose inputs are hidden, visible text, visible text, hidden.
ExampleFrame == << HiddenInput, TextInput, TextInput, HiddenInput >>

\* C14: for the iframe [hidden, text, text, hidden] the CVV is filled into the
\* third input (index 2 of the script, 3 here) and into no other.
C14_CvvIntoThirdInput ==
    (allInputs = ExampleFrame) => CvvFills = {3}

\* The position of a fallback act in cvvSelectors.
SelIdx(act) == CHOOSE p \in 1..Len(CvvSelectors) : CvvSelectors[p] = act

IsFallbackEntry(e) == \E p \in 1..Len(CvvSelectors) : CvvSelectors[p] = e.act

\* The fallback's fills, in the order they were attempted.
FallbackLog == SelectSeq(stageLog, IsFallbackEntry)

\* The positional pass entered the CVV.
PositionalEntered ==
    \E i \in 1..Len(stageLog) : stageLog[i].act = "fill:cvv" /\ stageLog[i].ok

\* The first match of pattern p among the inputs (0: none).
FirstMatch(inputs, p) ==
    FirstIndex({ j \in 1..Len(inputs) : MatchesSelector(inputs[j], p) })

\* Pattern p has a first match that is visible and takes the fill.
Fillable(inputs, p) ==
    /\ FirstMatch(inputs, p) # 0
    /\ inputs[FirstMatch(inputs, p)].visible
    /\ inputs[FirstMatch(inputs, p)].fault = "none"
    /\ inputs[FirstMatch(inputs, p)].enabled

LogIndex(a) ==
    IF \E i \in 1..Len(stageLog) : stageLog[i].act = a
      THEN CHOOSE i \in 1..Len(stageLog) :
               stageLog[i].act = a /\ \A j \in 1..(i - 1) : stageLog[j].act # a
      ELSE 0

\* The Payment stage reached the expiry entry with no CVV entered.
NoCvvClassified ==
    /\ outcome["Payment"] \in {"succeeded", "failed"}
    /\ LogIndex("click:expiry") # 0
    /\ CvvFills = {}

\* The faults the Payment stage can end with: a page primitive that raised,
\* or the iframe whose content is not accessible.
PaymentFaults ==
    { TimeoutMsg(a) : a \in { PaymentPrePrims[k] : k \in 1..Len(PaymentPrePrims) }
                          \cup { ExpiryPrims[k] : k \in 1..Len(ExpiryPrims) }
                          \cup { "isVisible:cardNumber", "fill:cardNumber",
                                 "locator:input.all" } }
    \cup { Msg("Could not access iframe content") }

\* C16: when no CVV was entered by either pass, the Payment stage records the
\* warning and goes straight on to the expiry entry; it fails only if the
\* expiry entry itself raises, and otherwise the run is at order placement.
\* The stage never fails for want of a CVV: it fails only with a fault of one
\* of its page primitives.
C16_NoCvvIsNotFatal ==
    /\ (outcome["Payment"] = "failed") => caught \in PaymentFaults
    /\ NoCvvClassified
         => /\ LogIndex("warn:no-cvv") # 0
            /\ LogIndex("click:expiry") = LogIndex("warn:no-cvv") + 1
            /\ (outcome["Payment"] = "failed")
                 => caught \in { TimeoutMsg(ExpiryPrims[k]) : k \in 1..Len(ExpiryPrims) }
            /\ (outcome["Payment"] = "succeeded")
                 => /\ stageLog[Len(stageLog)] = Entry("Payment", "fill:expiry", TRUE)
                    /\ pc = "PlaceOrder"
                    /\ pending = None
    /\ (LogIndex("warn:no-cvv") # 0) => CvvFills = {}
    /\ (pc = "PlaceOrder" /\ CvvFills = {}) => ENABLED PlaceOrder

\* No CVV was entered, the warning was recorded, and the order is about to be
\* placed.
C16_Witness ==
    /\ pc = "PlaceOrder"
    /\ LogIndex("warn:no-cvv") # 0
    /\ CardFills # {}
    /\ CvvFills = {}

\* The order was submitted and the poller exhausted its checks with no error
\* text: submitted, unconfirmed.
Unconfirmed ==
    /\ click = "completed"
    /\ monitorResult # NoMonitor
    /\ ~monitorResult.errorFound
    /\ payResult.kind = "returned" /\ payResult.success

\* The result object of line 189.
CheckoutCompleted == Call("onComplete", TRUE, Msg("Checkout completed"), None)

\* C17: the result onComplete receives tells an unconfirmed submission from
\* the other successes: it is the plain result of line 189 exactly when the
\* submission was not left unconfirmed.
C17_UnconfirmedIsReported ==
    \A i \in 1..Len(calls) :
        (calls[i].cb = "onComplete")
          => (Unconfirmed <=> calls[i] # CheckoutCompleted)

\* Every stage found its markup and completed, no validation dialog appeared,
\* the order was submitted and no check of the poller found an error text.
HappyPath ==
    /\ \A s \in StageSet \ {"AddressValidation", "PlaceOrder"} :
           outcome[s] = "succeeded"
    /\ outcome["AddressValidation"] = "skipped"
    /\ click = "completed"
    /\ monitorResult # NoMonitor
    /\ ~monitorResult.errorFound

\* C18: a happy-path run whose onComplete callback and browser.close return
\* ends Succeeded: executeCheckout resolves, onComplete was invoked exactly
\* once, with {success: true}, onError never, no screenshot was taken, and the
\* browser was closed once, after the callback.
C18_HappyPathSucceeds ==
    (/\ Terminal
     /\ onComplete
     /\ HappyPath
     /\ caught # Msg("onComplete raised")
     /\ \A i \in 1..Len(events) : events[i].ok)
      => /\ settled = "resolved"
         /\ rejection = None
         /\ caught = None
         /\ checkCount = maxChecks
         /\ calls = << CheckoutCompleted >>
         /\ calls[1].success
         /\ events = << Entry("Terminal", "onComplete", TRUE),
                        Entry("Terminal", "browser.close", TRUE) >>
         /\ closeCount = 1

\* A happy-path run has ended Succeeded.
C18_Witness ==
    /\ Terminal
    /\ onComplete /\ onError
    /\ HappyPath
    /\ settled = "resolved"
    /\ calls = << CheckoutCompleted >>

\* handlePayment returned the poller's confirmed failure.
Declined == payResult.kind = "returned" /\ ~payResult.success

\* C19: a run that ended after a failure (a fault caught by executeCheckout,
\* or an order declined by the poller) took the screenshot exactly once, and
\* before the browser was closed.
C19_ScreenshotOnFailure ==
    (Terminal /\ (caught # None \/ Declined))
      => /\ Count("screenshot") = 1
         /\ Before("screenshot", "browser.close")

\* A wait of a stage other than the optional AddressValidation timed out.
WaitTimedOut ==
    \E i \in 1..Len(stageLog) :
        /\ ~stageLog[i].ok
        /\ stageLog[i].act \in ObservePrims
        /\ stageLog[i].stage # "AddressValidation"

Progress(s) == outcome[s] # "notStarted"

IsPositionalEntry(e) == e.act = "fill:cvv"

\* The positional pass's fills, in the order they were attempted.
PositionalLog == SelectSeq(stageLog, IsPositionalEntry)

\* The inputs after the first that are inspected without fault and are
\* visible, enabled and not of type hidden.
Qualifying(inputs) ==
    { i \in 2..Len(inputs) :
        /\ inputs[i].fault # "inspect"
        /\ inputs[i].visible /\ inputs[i].enabled /\ inputs[i].type # "hidden" }

\* Those of them whose fill does not raise.
Taking(inputs) == { i \in Qualifying(inputs) : inputs[i].fault = "none" }

VisibleTextInputs(inputs) ==
    { i \in 1..Len(inputs) :
        inputs[i].visible /\ inputs[i].type \in {"text", "tel"} }

\* C23: once the Payment stage is through, if the iframe has a visible
\* text/tel input, the card number is in the first of them in document order
\* and in no other input.
C23_CardIntoFirstVisible ==
    (pc = "PlaceOrder" /\ VisibleTextInputs(allInputs) # {})
      => CardFills = { FirstIndex(VisibleTextInputs(allInputs)) }

\* The sample texts that name a failure, and what is left of each when its
\* surrounding blanks are removed.
ErrorTexts == { CardDeclined, PaymentFailed }

Trimmed(t) ==
    IF t = CardDeclined
      THEN << "C", "a", "r", "d", " ", "d", "e", "c", "l", "i", "n", "e", "d" >>
      ELSE t

\* The element is visible and its text names a failure.
Reportable(el) == el.visible /\ el.text \in ErrorTexts

SelPos(sel) == CHOOSE k \in 1..Len(ErrorSelectors) : ErrorSelectors[k] = sel

\* Element i comes before element j in the order of the scan: selector by
\* selector, and in document order within a selector.
ScannedBefore(els, i, j) ==
    \/ SelPos(els[i].sel) < SelPos(els[j].sel)
    \/ (els[i].sel = els[j].sel /\ i < j)

\* The reportable elements of the page.
Reportables(els) == { i \in 1..Len(els) : Reportable(els[i]) }

\* C24: a check ends by reporting exactly when the page it scanned has a
\* visible element whose text names a failure; the report carries the trimmed
\* text of the first such element in the order of the scan and the timing
\* (check number) * 200; no check follows a report; and without a report the
\* poller resolves only after its 50th check.
C24_ScanReportsFirstError ==
    /\ [][(pollPc = "scanning" /\ pollPc' # "scanning")
            => ((pollPc' = "resolved") <=> (Reportables(page) # {}))]_vars
    /\ [](monitorResult.errorFound
            => /\ pollPc = "resolved"
               /\ \E i \in Reportables(page) :
                    /\ \A j \in Reportables(page) \ {i} : ScannedBefore(page, i, j)
                    /\ monitorResult.errorMessage = Trimmed(page[i].text)
               /\ monitorResult.timing = checkCount * 200
               /\ ~ENABLED (ScanPage \/ PollTimer))
    /\ []((monitorResult # NoMonitor /\ ~monitorResult.errorFound)
            => checkCount = maxChecks)

\* The third check reported the .payment-error element although a
\* [role=alert] element with an error text comes first in the document.
C24_Witness ==
    /\ monitorResult.errorFound
    /\ monitorResult.timing = 600
    /\ page = << Element("[role=alert]", TRUE, PaymentFailed),
                 Element(".payment-error", TRUE, CardDeclined) >>
    /\ monitorResult.errorMessage = Trimmed(CardDeclined)

\* The payment iframe never attached, or its content frame is null.
FrameUnreachable ==
    \E i \in 1..Len(stageLog) :
        stageLog[i] \in { Entry("Payment", "waitFor:iframe-attached", FALSE),
                          Entry("Payment", "contentFrame", FALSE) }

\* The acts of the Payment stage on the card fields.
CardActs == { "fill:cardNumber", "click:expiry", "fill:expiry" } \cup CvvActs

\* C25: when the payment iframe is missing or its content cannot be accessed,
\* the Payment stage has failed with that error and the run fails: no card
\* number, CVV or expiry entry was attempted, order placement never starts,
\* the place-order click is never issued, the poller is never started,
\* onComplete is not called and executeCheckout rejects.
C25_FrameAccessIsFatal ==
    FrameUnreachable
      => /\ outcome["Payment"] = "failed"
         /\ caught \in { TimeoutMsg("waitFor:iframe-attached"),
                          Msg("Could not access iframe content") }
         /\ \A i \in 1..Len(stageLog) : stageLog[i].act \notin CardActs
         /\ ~stageLog[Len(stageLog)].ok
         /\ outcome["PlaceOrder"] = "notStarted"
         /\ click = "none"
         /\ pollPc = "idle" /\ checkCount = 0 /\ monitorResult = NoMonitor
         /\ Failing
         /\ \A i \in 1..Len(calls) : calls[i].cb # "onComplete"
         /\ Terminal => settled = "rejected"

\* A run ended Failed because the iframe's content frame was null.
C25_Witness ==
    /\ Terminal
    /\ FrameUnreachable
    /\ caught = Msg("Could not access iframe content")
    /\ settled = "rejected"

\* C26: within one Payment stage no input has been filled with both the card
\* number and the CVV.
C26_CardAndCvvDistinct == CvvFills \cap CardFills = {}

\* C27: onComplete has been called with success only if the place-order
\* click was issued and completed.
C27_SuccessOnlyAfterClick ==
    \A i \in 1..Len(calls) :
        (calls[i].cb = "onComplete" /\ calls[i].success) => click = "completed"

\* C28: every failure the poller reports was found by a check that began
\* after the place-order click was issued.
C28_ReportAfterSubmission ==
    monitorResult.errorFound => submittedAtScan

\* C29: once the run has ended and the browser is closed, the poller begins
\* no further check.
C29_NoCheckAfterRelease ==
    [][(Terminal /\ browser = "closed") => checkCount' = checkCount]_vars

\* C30: at most one check of the poller is in progress or scheduled at any
\* time, a check being scheduled only when the one before has ended;
\* checkCount never exceeds 50; and the promise is resolved exactly once,
\* after which no check is in progress or scheduled.
C30_OneCheckAtATime ==
    /\ inProgress \in {0, 1}
    /\ scheduled \in {0, 1}
    /\ inProgress + scheduled <= 1
    /\ (pollPc = "scanning") <=> (inProgress = 1)
    /\ (pollPc = "sleeping") <=> (scheduled = 1)
    /\ checkCount <= maxChecks
    /\ resolveCount <= 1
    /\ (pollPc = "resolved") <=> (resolveCount = 1)
    /\ (pollPc = "idle") <=> (checkCount = 0)

\* The poller resolved once, at its third check, and nothing of it is left.
C30_Witness ==
    /\ pollPc = "resolved"
    /\ resolveCount = 1
    /\ checkCount = 3
    /\ inProgress = 0
    /\ scheduled = 0

====
